---- MODULE Spec2Model ----
(***************************************************************************)
(* Monte Carlo pricers of "Rendu projet": pricer_vanilla.py (McSimul),     *)
(* pricer_tunnel.py (TunnelOptionPricer), pricer_napoleon.py               *)
(* (NapoleonOptionPricer) and pricer_himalaya.py (HimalayaOptionPricer).   *)
(*                                                                         *)
(* Numbers.  A float of the program is a fixed-point integer: the value v  *)
(* is held as v * SCALE, rounded down.  The three non-finite IEEE values   *)
(* are the integers NaN, PInf and NInf, outside the range of every finite  *)
(* value of the model; the arithmetic operators F* below give them the     *)
(* numpy semantics (0/0 = nan, x/0 = +-inf, sqrt(-x) = nan, nan            *)
(* propagates, a comparison with nan is false).                            *)
(*                                                                         *)
(* Time.  A time offset is an integer number of 1/TimeScale years, with    *)
(* TimeScale a multiple of 252 and of 4, so that one trading day (1/252)   *)
(* and one quarter (1/4) are exact.                                        *)
(***************************************************************************)
EXTENDS Integers, Sequences, FiniteSets, TLC

\* ------------------------------------------------------------ the state

VARIABLES
    entries,          \* the attributes of the pricer instance
    rng,              \* the state of np.random's global generator
    pc,               \* "Idle", "Running", "Complete" or "Failed"
    time_vector,      \* simulate_monte_carlo: the grid
    payoffs,          \* simulate_monte_carlo: the payoff list
    last_path,        \* the path(s) of the latest trial
    moving_average,   \* generate_convergence_curve: the three series
    lower_bound,
    upper_bound,
    fig,              \* << >>, or the one figure returned: price and error
    raised,           \* the exception that ended the run, or "none"
    runs,             \* the runs started so far
    seed0,            \* the generator state the current run started from
    prev,             \* the previous run: its seed, payoffs and outcome
    trials            \* the trials the current run has started

vars == << entries, rng, pc, time_vector, payoffs, last_path, moving_average,
           lower_bound, upper_bound, fig, raised, runs, seed0, prev, trials >>

\* ------------------------------------------------------------ numbers

SCALE == 1000
NaN == 2000000001
PInf == 2000000000
NInf == -2000000000

IsNaN(x) == x = NaN
IsInf(x) == x = PInf \/ x = NInf
IsFinite(x) == ~IsNaN(x) /\ ~IsInf(x)

\* x < y and x <= y on floats: false as soon as one side is nan.
FLt(x, y) == ~IsNaN(x) /\ ~IsNaN(y) /\ x < y
FLe(x, y) == ~IsNaN(x) /\ ~IsNaN(y) /\ x <= y

\* The fixed-point image of the integer n.
Fix(n) == n * SCALE

FNeg(x) ==
    IF IsNaN(x) THEN NaN
    ELSE IF x = PInf THEN NInf
    ELSE IF x = NInf THEN PInf
    ELSE 0 - x

FAdd(x, y) ==
    IF IsNaN(x) \/ IsNaN(y) THEN NaN
    ELSE IF (x = PInf /\ y = NInf) \/ (x = NInf /\ y = PInf) THEN NaN
    ELSE IF x = PInf \/ y = PInf THEN PInf
    ELSE IF x = NInf \/ y = NInf THEN NInf
    ELSE x + y

FSub(x, y) == FAdd(x, FNeg(y))

Sign(x) == IF x > 0 THEN 1 ELSE IF x < 0 THEN -1 ELSE 0

FMul(x, y) ==
    IF IsNaN(x) \/ IsNaN(y) THEN NaN
    ELSE IF IsInf(x) \/ IsInf(y)
         THEN IF x = 0 \/ y = 0 THEN NaN
              ELSE IF Sign(x) * Sign(y) > 0 THEN PInf ELSE NInf
    ELSE (x * y) \div SCALE

\* numpy's true division: a zero divisor gives nan or an infinity, never an
\* exception.
FDiv(x, y) ==
    IF IsNaN(x) \/ IsNaN(y) THEN NaN
    ELSE IF IsInf(x) /\ IsInf(y) THEN NaN
    ELSE IF IsInf(x) THEN (IF Sign(x) * (IF y < 0 THEN -1 ELSE 1) > 0 THEN PInf ELSE NInf)
    ELSE IF IsInf(y) THEN 0
    ELSE IF y = 0
         THEN IF x = 0 THEN NaN ELSE IF x > 0 THEN PInf ELSE NInf
    ELSE (x * SCALE) \div y

\* np.max([x, y]): nan wins, otherwise the larger.
FMax2(x, y) ==
    IF IsNaN(x) \/ IsNaN(y) THEN NaN
    ELSE IF x >= y THEN x ELSE y

RECURSIVE ISqrtIn(_, _, _)
\* The largest r in lo..hi with r * r <= n, for lo * lo <= n.
ISqrtIn(n, lo, hi) ==
    IF lo >= hi THEN lo
    ELSE LET mid == (lo + hi + 1) \div 2
         IN  IF mid * mid <= n THEN ISqrtIn(n, mid, hi) ELSE ISqrtIn(n, lo, mid - 1)

SqrtCap == 46340

\* np.sqrt.
FSqrt(x) ==
    IF IsNaN(x) \/ x < 0 THEN NaN
    ELSE IF x = PInf THEN PInf
    ELSE ISqrtIn(x * SCALE, 0, SqrtCap)

LN2 == 693

RECURSIVE Pow2(_)
Pow2(k) == IF k <= 0 THEN 1 ELSE 2 * Pow2(k - 1)

\* exp(r / SCALE) * SCALE for 0 <= r < LN2: the exponential series to the
\* sixth power.
ExpFrac(r) ==
    LET t1 == r
        t2 == (t1 * r) \div (2 * SCALE)
        t3 == (t2 * r) \div (3 * SCALE)
        t4 == (t3 * r) \div (4 * SCALE)
        t5 == (t4 * r) \div (5 * SCALE)
        t6 == (t5 * r) \div (6 * SCALE)
    IN  SCALE + t1 + t2 + t3 + t4 + t5 + t6

\* np.exp: exp(k ln 2 + r) = 2^k exp(r).
FExp(x) ==
    IF IsNaN(x) THEN NaN
    ELSE IF x = PInf THEN PInf
    ELSE IF x = NInf THEN 0
    ELSE LET k == x \div LN2
             r == x - k * LN2
         IN  IF k >= 0 THEN ExpFrac(r) * Pow2(k) ELSE ExpFrac(r) \div Pow2(0 - k)

RECURSIVE LogFracIn(_, _, _)
\* The largest r in lo..hi with ExpFrac(r) <= m, for ExpFrac(lo) <= m.
LogFracIn(m, lo, hi) ==
    IF lo >= hi THEN lo
    ELSE LET mid == (lo + hi + 1) \div 2
         IN  IF ExpFrac(mid) <= m THEN LogFracIn(m, mid, hi) ELSE LogFracIn(m, lo, mid - 1)

RECURSIVE Log2Floor(_)
\* The k >= 0 with 2^k * SCALE <= x < 2^(k+1) * SCALE, for x >= SCALE.
Log2Floor(x) == IF x < 2 * SCALE THEN 0 ELSE 1 + Log2Floor(x \div 2)

RECURSIVE Log2Below(_)
\* The k >= 1 with SCALE <= x * 2^k < 2 * SCALE, for 0 < x < SCALE.
Log2Below(x) == IF 2 * x >= SCALE THEN 1 ELSE 1 + Log2Below(2 * x)

\* np.log, the inverse of FExp rounded down.
FLog(x) ==
    IF IsNaN(x) \/ x < 0 THEN NaN
    ELSE IF x = PInf THEN PInf
    ELSE IF x = 0 THEN NInf
    ELSE IF x >= SCALE
         THEN LET k == Log2Floor(x)
              IN  k * LN2 + LogFracIn(x \div Pow2(k), 0, LN2 - 1)
         ELSE LET k == Log2Below(x)
              IN  LogFracIn(x * Pow2(k), 0, LN2 - 1) - k * LN2

\* ------------------------------------------------------------ time

TradingDays == 252
TimeRes == 4
TimeScale == TradingDays * TimeRes
Day == TimeRes
Quarter == TimeScale \div 4
Year == TimeScale

\* A difference of two time offsets as a float (in years).
FixTime(u) == (u * SCALE) \div TimeScale

\* ------------------------------------------------------------ np.random

\* The global generator of np.random is a deterministic function of its
\* state: a linear congruential generator of full period RngMod, whose state
\* selects the standard-normal value handed out.
RngMod == 8
RngA == 5
RngC == 3
DrawValues == << 500, -1000, 1500, -200, 0, 1000, -500, 200 >>

\* A generator that never moves on: every draw is the same draw.
NextRngStuck(r) == r

NextRng(r) == (RngA * r + RngC) % RngMod

\* A generator the seed does not reset: its stream moves on from run to run.
NormalUnseeded(r) == DrawValues[((r + runs) % RngMod) + 1]

\* np.random.normal(0, 1) in state r.
Normal(r) == DrawValues[r + 1]

\* ------------------------------------------------------------ sequences

RECURSIVE SumRange(_, _, _)
\* s[lo] + ... + s[hi] on floats, by halves.
SumRange(s, lo, hi) ==
    IF lo > hi THEN 0
    ELSE IF lo = hi THEN s[lo]
    ELSE LET mid == (lo + hi) \div 2
         IN  FAdd(SumRange(s, lo, mid), SumRange(s, mid + 1, hi))

\* The sum of a list of floats.
SumSeq(s) == SumRange(s, 1, Len(s))

\* s[a:b] of Python for 0 <= a, 0 <= b (0-based, b excluded, clipped).
Slice(s, a, b) ==
    LET hi == IF b < Len(s) THEN b ELSE Len(s)
    IN  IF a >= hi THEN << >> ELSE SubSeq(s, a + 1, hi)

\* np.mean: nan on an empty list, else the sum over the count.
NpMean(s) ==
    IF s = << >> THEN NaN
    ELSE LET t == SumSeq(s)
         IN  IF IsFinite(t) THEN t \div Len(s) ELSE t

\* The sample spread: the squared deviations are summed over n - 1, nan on a
\* single item.
NpStdSample(s) ==
    LET m == NpMean(s)
        sq == [k \in 1..Len(s) |-> FMul(FSub(s[k], m), FSub(s[k], m))]
        t == SumSeq(sq)
    IN  IF Len(s) <= 1 THEN NaN
        ELSE FSqrt(IF IsFinite(t) THEN t \div (Len(s) - 1) ELSE t)

\* np.std: the root of the mean squared deviation from the mean (divisor n).
NpStd(s) ==
    LET m == NpMean(s)
        sq == [k \in 1..Len(s) |-> FMul(FSub(s[k], m), FSub(s[k], m))]
    IN  FSqrt(NpMean(sq))

RECURSIVE NpMaxSeq(_)
\* np.max of a non-empty list: nan if any element is nan.
NpMaxSeq(s) ==
    IF Len(s) = 1 THEN s[1] ELSE FMax2(Head(s), NpMaxSeq(Tail(s)))

\* ------------------------------------------------------------ time grids

EarlyDays == 60
LateDays == 59

\* len(np.arange(maturity - 59/252, maturity, 1/252)) is
\* ceil((stop - start) / step) evaluated on doubles: 59 when the quotient
\* comes out as 59.0, 60 when it comes out just above.  On IEEE doubles it
\* is 59 for every maturity below 0.73 years and 60 for every maturity from
\* 1 to 3 years; the maturities of the model lie in these two ranges.
VanillaLateCount(maturity) == IF maturity >= Year THEN LateDays + 1 ELSE LateDays

\* McSimul.generate_time_vector
VanillaTimeVector(maturity) ==
    LET t_1 == [k \in 1..EarlyDays |-> (k - 1) * Day]
        t_2 == [k \in 1..VanillaLateCount(maturity) |->
                   (maturity - LateDays * Day) + (k - 1) * Day]
    IN  t_1 \o t_2

\* TunnelOptionPricer.generate_t: np.arange(0, maturity, 1/4).
TunnelTimeVector(maturity) ==
    LET n == IF maturity <= 0 THEN 0 ELSE (maturity + Quarter - 1) \div Quarter
    IN  [k \in 1..n |-> (k - 1) * Quarter]

\* int() of Python: truncation toward zero of maturity * 252.
IntTrunc(num, den) == IF num >= 0 THEN num \div den ELSE 0 - ((0 - num) \div den)

\* NapoleonOptionPricer.generate_t: list(range(int(maturity * 252))), the
\* elements being whole numbers used as times.
NapoleonTimeVector(maturity) ==
    LET t == IntTrunc(maturity * TradingDays, TimeScale)
    IN  [k \in 1..(IF t > 0 THEN t ELSE 0) |-> (k - 1) * Year]

\* HimalayaOptionPricer.generate_time_vector: [i for i in range(num_assets)].
HimalayaTimeVector(num_assets) ==
    [k \in 1..(IF num_assets > 0 THEN num_assets ELSE 0) |-> (k - 1) * Year]

\* ------------------------------------------------------------ paths

\* The exponent of one log-Euler step over dt with the draw z.
StepExponent(mu, sigma, dt, z) ==
    LET dtF == FixTime(dt)
    IN  FAdd(FMul(FSub(mu, FDiv(FMul(sigma, sigma), Fix(2))), dtF),
             FMul(FMul(sigma, FSqrt(dtF)), z))

\* One pass of the loop of simulate_gbm: the point after last, over dt.
GbmStep(last, dt, mu, sigma, z) == FMul(last, FExp(StepExponent(mu, sigma, dt, z)))

\* One pass of the inner loop of simulate_trajectory: the log price after last.
LogStep(last, dt, mu, sigma, z) == FAdd(last, StepExponent(mu, sigma, dt, z))

RECURSIVE PathRange(_, _, _, _, _, _, _, _)
\* The passes i = lo..hi (1-based indices of t) of the path loop, entered
\* with the latest point last and the generator state r: the points
\* appended, in order, and the generator state left.  The passes are run in
\* order, the first half before the second; logs tells the log-price loop
\* of Himalaya from the price loop of the three other classes.
PathRange(logs, last, t, lo, hi, mu, sigma, r) ==
    IF lo > hi THEN [S |-> << >>, rng |-> r]
    ELSE IF lo = hi
         THEN LET dt == t[lo] - t[lo - 1]
              IN  [S |-> << IF logs THEN LogStep(last, dt, mu, sigma, Normal(r))
                                    ELSE GbmStep(last, dt, mu, sigma, Normal(r)) >>,
                   rng |-> NextRng(r)]
    ELSE LET mid == (lo + hi) \div 2
             first == PathRange(logs, last, t, lo, mid, mu, sigma, r)
             second == PathRange(logs, first.S[Len(first.S)], t, mid + 1, hi, mu, sigma,
                                 first.rng)
         IN  [S |-> first.S \o second.S, rng |-> second.rng]

\* simulate_gbm / simulate_geometric_brownian_motion (Vanilla, Tunnel,
\* Napoleon): the path starts at the initial price; one draw per later point.
simulate_gbm(S_0, t, mu, sigma, r) ==
    LET rest == PathRange(FALSE, S_0, t, 2, Len(t), mu, sigma, r)
    IN  [S |-> << S_0 >> \o rest.S, rng |-> rest.rng]

\* One asset of simulate_trajectory: the log of the initial value, then one
\* draw per later point.
LogPath(v, t, mu, sigma, r) ==
    LET rest == PathRange(TRUE, FLog(v), t, 2, Len(t), mu, sigma, r)
    IN  [S |-> << FLog(v) >> \o rest.S, rng |-> rest.rng]

RECURSIVE TrajectoriesFrom(_, _, _, _, _, _)
\* The outer loop of simulate_trajectory: one log path per initial value.
TrajectoriesFrom(done, vals, t, mu, sigma, r) ==
    IF Len(done) >= Len(vals) THEN [S |-> done, rng |-> r]
    ELSE LET one == LogPath(vals[Len(done) + 1], t, mu, sigma, r)
         IN  TrajectoriesFrom(Append(done, one.S), vals, t, mu, sigma, one.rng)

\* HimalayaOptionPricer.simulate_trajectory
simulate_trajectory(vals, t, mu, sigma, r) ==
    TrajectoriesFrom(<< >>, vals, t, mu, sigma, r)

\* ------------------------------------------------------------ payoffs

LateFrom == 61
EarlyTo == 60

\* The late average less the early average, in place of their ratio.
VanillaPayoffDifference(S, strike) ==
    FMax2(FSub(FSub(NpMean(Slice(S, LateFrom, Len(S))), NpMean(Slice(S, 0, EarlyTo))),
               strike),
          0)

\* McSimul.calculate_payoff:
\* np.max([np.mean(S[61:]) / np.mean(S[:60]) - strike, 0]).
VanillaPayoff(S, strike) ==
    FMax2(FSub(FDiv(NpMean(Slice(S, LateFrom, Len(S))), NpMean(Slice(S, 0, EarlyTo))),
               strike),
          0)

RECURSIVE TunnelWalkKeeping(_, _, _, _, _, _)
\* A walk in which a value in neither band leaves the total as it is.
TunnelWalkKeeping(acc, inner, S_0, K, alpha, beta) ==
    IF inner = << >> THEN acc
    ELSE LET v == Head(inner)
             nxt == IF FLt(K[1], v) /\ FLt(v, K[2])
                        THEN FAdd(acc, FMul(FDiv(v, S_0), alpha))
                    ELSE IF FLt(K[2], v)
                        THEN FAdd(acc, FMul(FDiv(v, S_0), beta))
                    ELSE acc
         IN  TunnelWalkKeeping(nxt, Tail(inner), S_0, K, alpha, beta)

RECURSIVE TunnelWalk(_, _, _, _, _, _)
\* The loop of TunnelOptionPricer.payoff over the interior values inner:
\* the bands are tested on the value itself, the accrual is on value / S_0.
TunnelWalk(acc, inner, S_0, K, alpha, beta) ==
    IF inner = << >> THEN acc
    ELSE LET v == Head(inner)
             nxt == IF FLt(K[1], v) /\ FLt(v, K[2])
                        THEN FAdd(acc, FMul(FDiv(v, S_0), alpha))
                    ELSE IF FLt(K[2], v)
                        THEN FAdd(acc, FMul(FDiv(v, S_0), beta))
                    ELSE 0
         IN  TunnelWalk(nxt, Tail(inner), S_0, K, alpha, beta)

\* S[-1] / self.S_0 divides two Python floats when the path has one point
\* (S[-1] is then S_0 itself): a zero S_0 raises ZeroDivisionError.  Every
\* later point of a path is a numpy float, whose division never raises.
TunnelPayoffRaises(S, S_0) == Len(S) = 1 /\ S_0 = 0

\* The terminal call struck at the lower strike in place of the upper one.
TunnelPayoffLowerStrike(S, S_0, K, alpha, beta) ==
    FAdd(TunnelWalk(0, Slice(S, 1, Len(S) - 1), S_0, K, alpha, beta),
         FMax2(FSub(FDiv(S[Len(S)], S_0), K[1]), 0))

\* TunnelOptionPricer.payoff
TunnelPayoff(S, S_0, K, alpha, beta) ==
    FAdd(TunnelWalk(0, Slice(S, 1, Len(S) - 1), S_0, K, alpha, beta),
         FMax2(FSub(FDiv(S[Len(S)], S_0), K[2]), 0))

BlockSize == 12

\* monthly_returns: S[j] / S[j-1] - 1 for j in range(1, len(S)).
MonthlyReturns(S) ==
    [j \in 1..(Len(S) - 1) |-> FSub(FDiv(S[j + 1], S[j]), Fix(1))]

\* monthly_returns_grouped: returns[i:i+12] for i in range(0, len, 12).
GroupReturns(rets) ==
    [g \in 1..((Len(rets) + BlockSize - 1) \div BlockSize) |->
        Slice(rets, (g - 1) * BlockSize, g * BlockSize)]

RECURSIVE PyMinFrom(_, _)
\* min() of Python: the running minimum is replaced when an item is < it.
PyMinFrom(m, rest) ==
    IF rest = << >> THEN m
    ELSE PyMinFrom(IF FLt(Head(rest), m) THEN Head(rest) ELSE m, Tail(rest))

PyMin(group) == PyMinFrom(Head(group), Tail(group))

\* max(a, b) of Python: b only when b > a.
PyMax(a, b) == IF FLt(a, b) THEN b ELSE a

RECURSIVE GroupsInto(_, _, _, _)
\* for returns_group in monthly_returns_grouped: payoff += max(...).
GroupsInto(payoff, groups, fixed_coupon, floor) ==
    IF groups = << >> THEN payoff
    ELSE LET g == Head(groups)
             min_monthly_return == IF g # << >> THEN PyMin(g) ELSE 0
         IN  GroupsInto(FAdd(payoff, PyMax(FAdd(fixed_coupon, min_monthly_return), floor)),
                        Tail(groups), fixed_coupon, floor)

RECURSIVE NapoleonOuter(_, _, _, _, _)
\* for i in range(int(len(S) / 12)): the groups are rebuilt and summed into
\* payoff on every pass.
NapoleonOuter(payoff, passes, S, fixed_coupon, floor) ==
    IF passes <= 0 THEN payoff
    ELSE NapoleonOuter(GroupsInto(payoff, GroupReturns(MonthlyReturns(S)), fixed_coupon, floor),
                       passes - 1, S, fixed_coupon, floor)

\* NapoleonOptionPricer.calculate_option_payoff
NapoleonPayoff(S, fixed_coupon, floor) ==
    NapoleonOuter(0, Len(S) \div BlockSize, S, fixed_coupon, floor)

RECURSIVE Flatten(_)
Flatten(ss) == IF ss = << >> THEN << >> ELSE Head(ss) \o Flatten(Tail(ss))

\* np.max of an empty array raises ValueError.
HimalayaPayoffRaises(trajectories) == Flatten(trajectories) = << >>

\* np.max(x, 0) of a scalar x: 0 is the axis, the value is x.
NpMaxAxis(x, axis) == x

\* HimalayaOptionPricer.calculate_payoff: the exponentials of every value of
\* every trajectory, their maximum, less the strike.
HimalayaPayoff(trajectories, strike) ==
    LET exps == [j \in 1..Len(trajectories) |->
                    [k \in 1..Len(trajectories[j]) |-> FExp(trajectories[j][k])]]
        max_payoff == NpMaxSeq(Flatten(exps))
    IN  NpMaxAxis(FSub(max_payoff, strike), 0)

\* ------------------------------------------------------------ convergence

\* scipy.stats.norm.ppf at the levels the model uses: nan outside [0, 1],
\* the infinities at 0 and 1.
norm_ppf(q) ==
    IF IsNaN(q) \/ q < 0 \/ q > SCALE THEN NaN
    ELSE CASE q = 0 -> NInf
           [] q = 50 -> -1645
           [] q = 500 -> 0
           [] q = 950 -> 1645
           [] q = 975 -> 1960
           [] q = SCALE -> PInf

\* The half width a * std / np.sqrt(i) of entry i (0-based).
HalfWidth(a, std, i) == FDiv(FMul(a, std), FSqrt(Fix(i)))

\* An estimator that takes the spread of entry k from the whole list.
ConvergenceWholeSpread(P, IC) ==
    LET a == norm_ppf(IC)
        M == [k \in 1..Len(P) |-> NpMean(SubSeq(P, 1, k))]
        ET == [k \in 1..Len(P) |-> NpStd(P)]
    IN  [moving_average |-> M,
         lower_bound |-> [k \in 1..Len(P) |->
             IF k - 1 > 0 THEN FSub(M[k], HalfWidth(a, ET[k], k - 1)) ELSE M[k]],
         upper_bound |-> [k \in 1..Len(P) |->
             IF k - 1 > 0 THEN FAdd(M[k], HalfWidth(a, ET[k], k - 1)) ELSE M[k]]]

\* perform_monte_carlo / convergence_mc / monte_carlo_convergence: the same
\* loop in the four classes.
Convergence(P, IC) ==
    LET a == norm_ppf(IC)
        M == [k \in 1..Len(P) |-> NpMean(SubSeq(P, 1, k))]
        ET == [k \in 1..Len(P) |-> NpStd(SubSeq(P, 1, k))]
    IN  [moving_average |-> M,
         lower_bound |-> [k \in 1..Len(P) |->
             IF k - 1 > 0 THEN FSub(M[k], HalfWidth(a, ET[k], k - 1)) ELSE M[k]],
         upper_bound |-> [k \in 1..Len(P) |->
             IF k - 1 > 0 THEN FAdd(M[k], HalfWidth(a, ET[k], k - 1)) ELSE M[k]]]

\* ------------------------------------------------------------ inputs

MaxSims == 3
NumSeeds == 2
MaxRuns == 2

\* The attributes a constructor stores, one record shape for the four
\* classes; a class reads only its own attributes:
\*   Vanilla   S_0 strike sigma mu maturity IC Ns
\*   Tunnel    S_0 K sigma mu Ns IC alpha beta maturity
\*   Napoleon  S_0 sigma mu maturity IC Ns fixed_coupon floor
\*   Himalaya  assets strike sigma mu Ns num_assets IC
Blank ==
    [kind |-> "Vanilla", S_0 |-> 0, assets |-> << >>, strike |-> 0, K |-> << 0, 0 >>,
     sigma |-> 0, mu |-> 0, maturity |-> 0, IC |-> 0, Ns |-> 0, alpha |-> 0,
     beta |-> 0, fixed_coupon |-> 0, floor |-> 0, num_assets |-> 0]

ValidSigma == {0, 200}
ValidIC == {50, 950}
ValidNs == 1..MaxSims

ValidVanilla ==
    {[Blank EXCEPT !.kind = "Vanilla", !.S_0 = Fix(100), !.strike = Fix(1), !.sigma = sg,
                   !.mu = 50, !.maturity = T, !.IC = 950, !.Ns = n] :
        sg \in ValidSigma, T \in {Quarter, 2 * Quarter, Year}, n \in ValidNs}

\* Scenario A of the specification: ten trials on a flat market.
ScenarioA ==
    {[Blank EXCEPT !.kind = "Vanilla", !.S_0 = Fix(100), !.strike = 0, !.sigma = 0,
                   !.mu = 0, !.maturity = Year, !.IC = 950, !.Ns = 10]}

ValidTunnel ==
    {[Blank EXCEPT !.kind = "Tunnel", !.S_0 = s, !.K = << 900, 1100 >>, !.sigma = sg,
                   !.mu = 50, !.maturity = T, !.IC = ic, !.Ns = n, !.alpha = ab[1],
                   !.beta = ab[2]] :
        s \in {950, Fix(1), Fix(100)}, sg \in ValidSigma,
        T \in {Quarter, 2 * Quarter, Year},
        ic \in ValidIC, n \in ValidNs, ab \in {<< 0, 0 >>, << 100, 50 >>}}

ValidNapoleon ==
    {[Blank EXCEPT !.kind = "Napoleon", !.S_0 = Fix(1), !.sigma = sg, !.mu = 50,
                   !.maturity = T, !.IC = ic, !.Ns = n, !.fixed_coupon = cf[1],
                   !.floor = cf[2]] :
        sg \in ValidSigma, T \in {1, 8 * Day, 13 * Day, 25 * Day},
        ic \in ValidIC, n \in ValidNs, cf \in {<< 0, -2000 >>, << 80, 0 >>}}

ValidHimalaya ==
    {[Blank EXCEPT !.kind = "Himalaya", !.assets = av, !.strike = k, !.sigma = sg,
                   !.mu = 50, !.IC = ic, !.Ns = n, !.num_assets = na] :
        av \in {<< Fix(10) >>, << Fix(10), Fix(5) >>}, k \in {Fix(5), Fix(20)},
        sg \in ValidSigma, ic \in ValidIC, n \in ValidNs, na \in {1, 2, 3}}

ValidEntries == ValidVanilla \cup ValidTunnel \cup ValidNapoleon \cup ValidHimalaya

\* What the specification calls valid input.
IsValid(e) ==
    /\ e.Ns > 0
    /\ e.IC > 0 /\ e.IC < SCALE
    /\ e.sigma >= 0
    /\ IF e.kind = "Himalaya"
          THEN e.assets # << >> /\ \A k \in 1..Len(e.assets) : e.assets[k] > 0
          ELSE e.S_0 > 0
    /\ e.kind = "Tunnel" => e.K[1] < e.K[2]

\* A valid entry with one field made invalid.
Faults(e) ==
    {[e EXCEPT !.Ns = n] : n \in {-1, 0}}
    \cup {[e EXCEPT !.IC = ic] : ic \in {0, 1500}}
    \cup {[e EXCEPT !.sigma = -200]}
    \cup (IF e.kind = "Himalaya"
             THEN {[e EXCEPT !.assets = av] : av \in {<< 0 >>, << Fix(10), 0 - Fix(1) >>}}
             ELSE {[e EXCEPT !.S_0 = s] : s \in {0, 0 - Fix(1)}})
    \cup (IF e.kind = "Tunnel"
             THEN {[e EXCEPT !.K = k] : k \in {<< 1100, 900 >>, << 1000, 1000 >>}}
             ELSE {})

FaultyEntries ==
    UNION {Faults(e) : e \in {v \in ValidEntries :
                                 /\ v.Ns = 2 /\ v.IC = 950 /\ v.sigma = 200
                                 /\ v.kind = "Vanilla" => v.maturity = Year}}

Entries == ValidEntries \cup ScenarioA \cup FaultyEntries

\* ------------------------------------------------------------ one trial

\* generate_time_vector / generate_t of the entry's class.
TimeVector(e) ==
    CASE e.kind = "Vanilla" -> VanillaTimeVector(e.maturity)
      [] e.kind = "Tunnel" -> TunnelTimeVector(e.maturity)
      [] e.kind = "Napoleon" -> NapoleonTimeVector(e.maturity)
      [] e.kind = "Himalaya" -> HimalayaTimeVector(e.num_assets)

\* The body of the loop of simulate_monte_carlo, up to the append: the
\* path(s) of the trial, then its payoff, or the exception the payoff raises.
RunTrial(e, t, r) ==
    IF e.kind = "Himalaya"
    THEN LET g == simulate_trajectory(e.assets, t, e.mu, e.sigma, r)
         IN  IF HimalayaPayoffRaises(g.S)
                THEN [exc |-> "ValueError", payoff |-> 0, rng |-> g.rng, S |-> g.S]
                ELSE [exc |-> "none", payoff |-> HimalayaPayoff(g.S, e.strike),
                      rng |-> g.rng, S |-> g.S]
    ELSE LET g == simulate_gbm(e.S_0, t, e.mu, e.sigma, r)
         IN  CASE e.kind = "Vanilla" ->
                    [exc |-> "none", payoff |-> VanillaPayoff(g.S, e.strike),
                     rng |-> g.rng, S |-> g.S]
               [] e.kind = "Tunnel" ->
                    IF TunnelPayoffRaises(g.S, e.S_0)
                    THEN [exc |-> "ZeroDivisionError", payoff |-> 0, rng |-> g.rng, S |-> g.S]
                    ELSE [exc |-> "none",
                          payoff |-> TunnelPayoff(g.S, e.S_0, e.K, e.alpha, e.beta),
                          rng |-> g.rng, S |-> g.S]
               [] e.kind = "Napoleon" ->
                    [exc |-> "none", payoff |-> NapoleonPayoff(g.S, e.fixed_coupon, e.floor),
                     rng |-> g.rng, S |-> g.S]

\* A simulator that uses up the grid it walks, dropping its first point.
GridAfterTrialShortened(t) == IF t = << >> THEN t ELSE Tail(t)

\* The grid after a pass of the loop: simulate_gbm, simulate_trajectory and
\* the payoff only read it (time_vector[i] - time_vector[i-1], len).
GridAfterTrial(t) == t

\* A list that takes its new item at the front.
ListPrepend(list, x) == << x >> \o list

\* list.append(x).
ListAppend(list, x) == Append(list, x)

\* A loop that makes one pass too many.
TrialCountOneMore(Ns) == IF Ns + 1 > 0 THEN Ns + 1 ELSE 0

\* len(range(Ns)).
TrialCount(Ns) == IF Ns > 0 THEN Ns ELSE 0

\* ------------------------------------------------------------ the run

NoRun == [seed |-> 0, payoffs |-> << >>, pc |-> "Idle"]

Init ==
    /\ entries \in Entries
    /\ rng \in 0..(NumSeeds - 1)
    /\ pc = "Idle"
    /\ time_vector = << >>
    /\ payoffs = << >>
    /\ last_path = << >>
    /\ moving_average = << >>
    /\ lower_bound = << >>
    /\ upper_bound = << >>
    /\ fig = << >>
    /\ raised = "none"
    /\ runs = 0
    /\ seed0 = 0
    /\ prev = NoRun
    /\ trials = 0

\* The payoff list simulate_monte_carlo starts from.
FreshPayoffs(old) == << >>

\* generate_convergence_curve up to the loop of simulate_monte_carlo, on an
\* instance holding the entries: the grid is built and the payoff list is
\* empty.
generate_convergence_curve ==
    /\ pc = "Idle"
    /\ runs < MaxRuns
    /\ pc' = "Running"
    /\ runs' = runs + 1
    /\ seed0' = rng
    /\ time_vector' = TimeVector(entries)
    /\ payoffs' = FreshPayoffs(payoffs)
    /\ last_path' = << >>
    /\ moving_average' = << >>
    /\ lower_bound' = << >>
    /\ upper_bound' = << >>
    /\ fig' = << >>
    /\ raised' = "none"
    /\ trials' = 0
    /\ UNCHANGED << entries, rng, prev >>

\* One pass of the loop of simulate_monte_carlo.
Trial ==
    /\ pc = "Running"
    /\ Len(payoffs) < TrialCount(entries.Ns)
    /\ trials' = trials + 1
    /\ time_vector' = GridAfterTrial(time_vector)
    /\ LET res == RunTrial(entries, time_vector, rng)
       IN  /\ rng' = res.rng
           /\ last_path' = res.S
           /\ IF res.exc = "none"
                 THEN /\ payoffs' = ListAppend(payoffs, res.payoff)
                      /\ UNCHANGED << pc, raised >>
                 ELSE /\ pc' = "Failed"
                      /\ raised' = res.exc
                      /\ UNCHANGED payoffs
    /\ UNCHANGED << entries, moving_average, lower_bound, upper_bound, fig, runs,
                    seed0, prev >>

\* After the loop: perform_monte_carlo, then the title of the figure, where
\* moving_average[-1] raises IndexError on an empty list.
Estimate ==
    /\ pc = "Running"
    /\ Len(payoffs) >= TrialCount(entries.Ns)
    /\ LET c == Convergence(payoffs, entries.IC)
           n == Len(c.moving_average)
       IN  /\ moving_average' = c.moving_average
           /\ lower_bound' = c.lower_bound
           /\ upper_bound' = c.upper_bound
           /\ IF n = 0
                 THEN /\ pc' = "Failed"
                      /\ raised' = "IndexError"
                      /\ UNCHANGED fig
                 ELSE /\ pc' = "Complete"
                      /\ fig' = << [final_price |-> c.moving_average[n],
                                    error |-> FSub(c.upper_bound[n], c.lower_bound[n])] >>
                      /\ UNCHANGED raised
    /\ UNCHANGED << entries, rng, time_vector, payoffs, last_path, runs, seed0, prev,
                    trials >>

\* generate_convergence_curve returns its figure, or its exception reaches
\* the caller, who may run an instance with the same entries again.
Return ==
    /\ pc \in {"Complete", "Failed"}
    /\ pc' = "Idle"
    /\ prev' = [seed |-> seed0, payoffs |-> payoffs, pc |-> pc]
    /\ UNCHANGED << entries, rng, time_vector, payoffs, last_path, moving_average,
                    lower_bound, upper_bound, fig, raised, runs, seed0, trials >>

\* Between two runs the caller may put the generator back to the state the
\* previous run started from (np.random.seed with the same seed).
Reseed ==
    /\ pc = "Idle"
    /\ runs > 0
    /\ rng # prev.seed
    /\ rng' = prev.seed
    /\ UNCHANGED << entries, pc, time_vector, payoffs, last_path, moving_average,
                    lower_bound, upper_bound, fig, raised, runs, seed0, prev, trials >>

Next == generate_convergence_curve \/ Trial \/ Estimate \/ Return \/ Reseed

Spec == Init /\ [][Next]_vars

\* ------------------------------------------------------------ properties

AllFinite(s) == \A k \in 1..Len(s) : IsFinite(s[k])

\* == of two floats: false as soon as one of them is nan.
FEq(x, y) == ~IsNaN(x) /\ ~IsNaN(y) /\ x = y

IsPrefix(s, t) == Len(s) <= Len(t) /\ \A k \in 1..Len(s) : s[k] = t[k]

\* The sum, over the blocks of twelve returns of S, of the least return of
\* each block, every block counted once.
BlockMinima(S) ==
    LET groups == GroupReturns(MonthlyReturns(S))
    IN  SumSeq([g \in 1..Len(groups) |-> PyMin(groups[g])])

\* C1: at a confidence level inside (0, 1) and whatever the payoffs, from
\* the second entry on the lower bound is at most the mean and the mean at
\* most the upper bound.
C1_BoundsBracketMean ==
    (pc = "Complete" /\ entries.IC > 0 /\ entries.IC < SCALE /\ AllFinite(payoffs))
        => \A i \in 2..Len(moving_average) :
              /\ FLe(lower_bound[i], moving_average[i])
              /\ FLe(moving_average[i], upper_bound[i])

\* C2: a run on invalid input simulates no trial, never completes and
\* produces neither payoffs, nor series, nor a figure.
C2_InvalidInputFailsFirst ==
    ~IsValid(entries)
        => /\ trials = 0
           /\ pc # "Complete"
           /\ payoffs = << >>
           /\ moving_average = << >>
           /\ fig = << >>

\* C3: on valid input every payoff appended to the payoff list is >= 0.
C3_PayoffsNonNegative ==
    IsValid(entries) => \A k \in 1..Len(payoffs) : IsNaN(payoffs[k]) \/ payoffs[k] >= 0

\* C4: a completed run of Ns >= 1 simulations has made exactly Ns trials and
\* its three convergence series have exactly Ns entries each.
C4_ExactlyNsTrials ==
    (pc = "Complete" /\ entries.Ns >= 1)
        => /\ trials = entries.Ns
           /\ Len(payoffs) = entries.Ns
           /\ Len(moving_average) = entries.Ns
           /\ Len(lower_bound) = entries.Ns
           /\ Len(upper_bound) = entries.Ns

C4_Witness ==
    /\ pc = "Complete"
    /\ entries.Ns = MaxSims
    /\ trials = MaxSims
    /\ Len(moving_average) = MaxSims

\* C5: no run completes with a non-finite value in its payoff list.
C5_NonFiniteFails ==
    pc = "Complete" => AllFinite(payoffs)

C7_ZeroVolatilityCollapses ==
    (IsValid(entries) /\ entries.sigma = 0)
        => /\ \A k \in 1..Len(payoffs) : FEq(payoffs[k], payoffs[1])
           /\ pc = "Complete"
                 => \A i \in 1..Len(moving_average) :
                       /\ FEq(lower_bound[i], moving_average[i])
                       /\ FEq(upper_bound[i], moving_average[i])

\* C8, as the specification states it: in scenario A every path is constant
\* at 100, every payoff is 0, the mean series is all zeros and the error 0.
C8_ScenarioAZeroPayoffs ==
    (entries \in ScenarioA /\ pc = "Complete")
        => /\ \A k \in 1..Len(last_path) : last_path[k] = Fix(100)
           /\ \A k \in 1..Len(payoffs) : payoffs[k] = 0
           /\ \A k \in 1..Len(moving_average) : moving_average[k] = 0
           /\ fig[1].error = 0

\* C8, amended: in scenario A every path is constant at 100, every one of the
\* ten payoffs is 100/100 - 0 = 1, the mean series is all ones and the
\* error is 0.
C8_ScenarioAUnitPayoffs ==
    (entries \in ScenarioA /\ pc = "Complete")
        => /\ Len(last_path) = Len(time_vector)
           /\ \A k \in 1..Len(last_path) : last_path[k] = Fix(100)
           /\ Len(payoffs) = 10
           /\ \A k \in 1..Len(payoffs) : payoffs[k] = Fix(1)
           /\ \A k \in 1..Len(moving_average) : moving_average[k] = Fix(1)
           /\ fig[1].final_price = Fix(1)
           /\ fig[1].error = 0

C8_Witness ==
    /\ entries \in ScenarioA
    /\ pc = "Complete"
    /\ Len(payoffs) = 10
    /\ Len(last_path) = EarlyDays + LateDays + 1
    /\ fig # << >>

\* C9: with a zero coupon and a floor below every return, the payoff of a
\* Napoleon trajectory of any length is the sum of the minima of its blocks
\* of twelve returns, each block counted once.
C9_NapoleonBlockMinima ==
    (/\ entries.kind = "Napoleon" /\ IsValid(entries)
     /\ entries.fixed_coupon = 0 /\ entries.floor = 0 - Fix(2)
     /\ pc = "Running" /\ payoffs # << >>)
        => payoffs[Len(payoffs)] = BlockMinima(last_path)

\* C10: a Himalaya run on valid input with num_assets = 1 has a grid of one
\* point, consumes no draw, does not fail, and every payoff is
\* max(S0 - strike, 0), which is 0 when the strike is above S0.
C10_HimalayaSinglePoint ==
    (/\ entries.kind = "Himalaya" /\ IsValid(entries)
     /\ entries.num_assets = 1 /\ Len(entries.assets) = 1
     /\ pc # "Idle")
        => /\ Len(time_vector) = 1
           /\ rng = seed0
           /\ pc # "Failed"
           /\ \A k \in 1..Len(payoffs) :
                 payoffs[k] = FMax2(FSub(entries.assets[1], entries.strike), 0)

\* The last value of the latest path over the initial price.
FinalRatio == FDiv(last_path[Len(last_path)], entries.S_0)

\* C11: with both rates at zero the payoff of a Tunnel trajectory is the
\* terminal call max(S_final/S_0 - K[1], 0) alone, whatever its interior
\* values and also when it has one or two points.
C11_TunnelZeroRates ==
    (/\ entries.kind = "Tunnel" /\ IsValid(entries)
     /\ entries.alpha = 0 /\ entries.beta = 0
     /\ payoffs # << >>)
        => payoffs[Len(payoffs)] = FMax2(FSub(FinalRatio, entries.K[2]), 0)

C11_Witness ==
    /\ entries.kind = "Tunnel" /\ IsValid(entries)
    /\ entries.alpha = 0 /\ entries.beta = 0
    /\ Len(last_path) = 4
    /\ payoffs # << >>
    /\ payoffs[Len(payoffs)] > 0
    /\ payoffs[Len(payoffs)] = FSub(FinalRatio, entries.K[2])

\* The payoff the class of the entries e gives the path(s) S.
PayoffOf(e, S) ==
    CASE e.kind = "Vanilla" -> VanillaPayoff(S, e.strike)
      [] e.kind = "Tunnel" -> TunnelPayoff(S, e.S_0, e.K, e.alpha, e.beta)
      [] e.kind = "Napoleon" -> NapoleonPayoff(S, e.fixed_coupon, e.floor)
      [] e.kind = "Himalaya" -> HimalayaPayoff(S, e.strike)

\* A step of a run that is Running or Complete leaves the payoff list as
\* it is, or is a trial putting its payoff at the end of the list.
AppendStep ==
    pc \in {"Running", "Complete"}
        => \/ payoffs' = payoffs /\ (pc' # pc \/ pc' = "Idle")
           \/ /\ pc' = "Running"
              /\ trials' = trials + 1
              /\ Len(payoffs') = trials'
              /\ payoffs' = Append(payoffs, PayoffOf(entries, last_path'))

\* C12: while a run is Running or Complete its payoff list changes only by
\* taking, at its end, the payoff of the trial that has just finished: after
\* the k-th trial it has k entries, the k-th being that trial's payoff and
\* the earlier ones as they were; nothing reorders it up to Complete.
C12_AppendOnly == [][AppendStep]_vars

C12_Witness ==
    /\ pc = "Running"
    /\ trials = MaxSims
    /\ Len(payoffs) = MaxSims
    /\ payoffs[1] # payoffs[2]
    /\ payoffs[2] # payoffs[3]

\* C13: the estimator applied to the first k payoffs of a list returns the
\* first k entries of the three series it returns for the whole list.
C13_PrefixSeries ==
    pc = "Complete"
        => \A k \in 1..Len(payoffs) :
              LET c == Convergence(SubSeq(payoffs, 1, k), entries.IC)
              IN  /\ c.moving_average = SubSeq(moving_average, 1, k)
                  /\ c.lower_bound = SubSeq(lower_bound, 1, k)
                  /\ c.upper_bound = SubSeq(upper_bound, 1, k)

C13_Witness ==
    /\ pc = "Complete"
    /\ Len(payoffs) = MaxSims
    /\ AllFinite(payoffs)
    /\ payoffs[MaxSims] # payoffs[1]
    /\ lower_bound[2] # moving_average[2]
    /\ Convergence(SubSeq(payoffs, 1, 2), entries.IC).lower_bound[2] = lower_bound[2]

\* The last n items of the list s.
LastItems(s, n) == SubSeq(s, Len(s) - n + 1, Len(s))

\* C14: the payoff of a Vanilla trajectory is max(avgLate/avgEarly - strike,
\* 0) with avgEarly the mean of its first 60 values and avgLate the mean of
\* its last 60 values.
C14_VanillaWindows ==
    (/\ entries.kind = "Vanilla" /\ IsValid(entries)
     /\ payoffs # << >> /\ Len(last_path) >= 2 * EarlyDays)
        => payoffs[Len(payoffs)]
              = FMax2(FSub(FDiv(NpMean(LastItems(last_path, EarlyDays)),
                                NpMean(SubSeq(last_path, 1, EarlyDays))),
                           entries.strike),
                      0)

\* The largest exponential among the last values of the log paths.
BestFinal(trajectories) ==
    NpMaxSeq([j \in 1..Len(trajectories) |->
                 FExp(trajectories[j][Len(trajectories[j])])])

\* C15: the payoff of a Himalaya trial is max(best - strike, 0) with best
\* the largest asset value at the final grid step; values at earlier steps
\* do not count.  Stated for the payoffs that are not negative.
C15_HimalayaFinalStep ==
    (/\ entries.kind = "Himalaya" /\ IsValid(entries)
     /\ payoffs # << >> /\ FLe(0, payoffs[Len(payoffs)]))
        => payoffs[Len(payoffs)] = FMax2(FSub(BestFinal(last_path), entries.strike), 0)

\* The sum, over the blocks of twelve returns of S, of
\* max(fixed_coupon + min(block), floor), every block counted once.
BlockCoupons(S, fixed_coupon, floor) ==
    LET groups == GroupReturns(MonthlyReturns(S))
    IN  SumSeq([g \in 1..Len(groups) |->
                   PyMax(FAdd(fixed_coupon, PyMin(groups[g])), floor)])

\* C16: the payoff of a Napoleon trajectory is the sum over its blocks of
\* twelve consecutive returns S[j]/S[j-1] - 1, each block once, of
\* max(fixed_coupon + min(block), floor).
C16_NapoleonBlocks ==
    (entries.kind = "Napoleon" /\ IsValid(entries) /\ payoffs # << >>)
        => payoffs[Len(payoffs)]
              = BlockCoupons(last_path, entries.fixed_coupon, entries.floor)

RECURSIVE RatioWalk(_, _, _, _, _, _)
\* The walk over the interior values with the bands tested on value / S_0.
RatioWalk(acc, inner, S_0, K, alpha, beta) ==
    IF inner = << >> THEN acc
    ELSE LET ratio == FDiv(Head(inner), S_0)
             nxt == IF FLt(K[1], ratio) /\ FLt(ratio, K[2])
                        THEN FAdd(acc, FMul(ratio, alpha))
                    ELSE IF FLt(K[2], ratio)
                        THEN FAdd(acc, FMul(ratio, beta))
                    ELSE 0
         IN  RatioWalk(nxt, Tail(inner), S_0, K, alpha, beta)

\* The interior values of the latest path: all but its first and last.
Interior == Slice(last_path, 1, Len(last_path) - 1)

\* C17: the payoff of a Tunnel trajectory accrues alpha * v/S_0 for an
\* interior value v exactly when K[0] < v/S_0 < K[1], and beta * v/S_0
\* exactly when v/S_0 > K[1]: the band is decided on the ratio v/S_0.
C17_TunnelBandsOnRatio ==
    (entries.kind = "Tunnel" /\ IsValid(entries) /\ payoffs # << >>)
        => payoffs[Len(payoffs)]
              = FAdd(RatioWalk(0, Interior, entries.S_0, entries.K,
                               entries.alpha, entries.beta),
                     FMax2(FSub(FinalRatio, entries.K[2]), 0))

\* An interior value in neither band: at or below the lower strike, or
\* exactly at the upper strike.
Resets(v) == FLe(v, entries.K[1]) \/ v = entries.K[2]

\* The position in Interior of the last value in neither band, 0 if none.
LastReset ==
    LET at == {k \in 1..Len(Interior) : Resets(Interior[k])}
    IN  IF at = {} THEN 0 ELSE CHOOSE k \in at : \A j \in at : j <= k

\* What an interior value inside a band adds to the total.
Accrual(v) ==
    FMul(FDiv(v, entries.S_0), IF FLt(v, entries.K[2]) THEN entries.alpha ELSE entries.beta)

\* C18: an interior value in neither band sets the total to zero, so the
\* payoff of a Tunnel trajectory is the accruals of the interior values that
\* come after the last such value, plus the terminal call, which nothing
\* resets.
C18_TunnelReset ==
    (entries.kind = "Tunnel" /\ IsValid(entries) /\ payoffs # << >>)
        => payoffs[Len(payoffs)]
              = FAdd(SumSeq([k \in 1..(Len(Interior) - LastReset) |->
                                Accrual(Interior[LastReset + k])]),
                     FMax2(FSub(FinalRatio, entries.K[2]), 0))

C18_Witness ==
    /\ entries.kind = "Tunnel" /\ IsValid(entries) /\ payoffs # << >>
    /\ Len(Interior) = 2
    /\ LastReset = 2
    /\ Accrual(Interior[1]) > 0
    /\ payoffs[Len(payoffs)] = 0

\* Every step of the grid of the current run goes forward in time.
GridIncreases == \A i \in 2..Len(time_vector) : time_vector[i] > time_vector[i - 1]

\* C19: the grid built for a positive maturity, or a positive number of
\* assets, starts at zero and is strictly increasing, so every step dt of
\* the path simulator is > 0.
C19_GridsIncrease ==
    (/\ IsValid(entries)
     /\ IF entries.kind = "Himalaya" THEN entries.num_assets > 0 ELSE entries.maturity > 0
     /\ time_vector # << >>)
        => time_vector[1] = 0 /\ GridIncreases

\* C20: the Vanilla grid is the 60 daily offsets 0, 1/252, ..., 59/252
\* followed by 60 daily offsets the last of which is the maturity: 120
\* points ending at the maturity.  Stated for the grids that increase.
C20_VanillaGrid ==
    (/\ entries.kind = "Vanilla" /\ IsValid(entries)
     /\ time_vector # << >> /\ GridIncreases)
        => /\ Len(time_vector) = 2 * EarlyDays
           /\ \A k \in 1..EarlyDays : time_vector[k] = (k - 1) * Day
           /\ \A k \in (EarlyDays + 2)..Len(time_vector) :
                 time_vector[k] - time_vector[k - 1] = Day
           /\ time_vector[Len(time_vector)] = entries.maturity

\* The root of the sum of the squared deviations of the first i payoffs from
\* their mean, the sum taken over divisor.
SpreadOver(i, divisor) ==
    LET P == SubSeq(payoffs, 1, i)
        m == NpMean(P)
        t == SumSeq([k \in 1..i |-> FMul(FSub(P[k], m), FSub(P[k], m))])
    IN  FSqrt(IF IsFinite(t) THEN t \div divisor ELSE t)

\* Entry i > 1 of the two bounds lies z * spread / sqrt(i - 1) below and
\* above the mean of the first i payoffs.
BoundsAt(i, spread) ==
    LET half == FDiv(FMul(norm_ppf(entries.IC), spread), FSqrt(Fix(i - 1)))
    IN  /\ moving_average[i] = NpMean(SubSeq(payoffs, 1, i))
        /\ lower_bound[i] = FSub(moving_average[i], half)
        /\ upper_bound[i] = FAdd(moving_average[i], half)
        /\ FSub(upper_bound[i], moving_average[i]) = FSub(moving_average[i], lower_bound[i])

StreamOrder == << 0, 3, 2, 5, 4, 7, 6, 1 >>

\* The state of the generator n draws after the state r.
StreamAfter(r, n) ==
    LET at == CHOOSE k \in 1..Len(StreamOrder) : StreamOrder[k] = r
    IN  StreamOrder[((at - 1 + n) % Len(StreamOrder)) + 1]

\* The trajectories one trial simulates, and the draws it takes on the grid
\* of the current run: one per trajectory and grid point after the first.
TrajectoriesPerTrial == IF entries.kind = "Himalaya" THEN Len(entries.assets) ELSE 1
DrawsPerTrial == TrajectoriesPerTrial * (Len(time_vector) - 1)

\* C22: on a grid of at least one point every trial of a run takes exactly
\* len(grid) - 1 draws per trajectory from the stream, the trials take
\* consecutive stretches of it, so that no draw serves two trials, and the
\* payoff of trial k is the payoff of the path(s) built from the k-th
\* stretch alone.
C22_DrawsNotShared ==
    (pc # "Idle" /\ time_vector # << >>)
        => /\ rng = StreamAfter(seed0, trials * DrawsPerTrial)
           /\ \A k \in 1..Len(payoffs) :
                 LET alone == RunTrial(entries, time_vector,
                                       StreamAfter(seed0, (k - 1) * DrawsPerTrial))
                 IN  /\ payoffs[k] = alone.payoff
                     /\ alone.rng = StreamAfter(seed0, k * DrawsPerTrial)
                     /\ k = trials => alone.S = last_path

C22_Witness ==
    /\ pc = "Complete"
    /\ trials = MaxSims
    /\ Len(payoffs) = MaxSims
    /\ DrawsPerTrial > 0
    /\ DrawsPerTrial % Len(StreamOrder) # 0
    /\ rng # seed0
    /\ payoffs[1] # payoffs[2]
    /\ payoffs[2] # payoffs[3]

\* A step that starts a run builds the grid of the entries, with no trial
\* made yet; any step of a run under way leaves the grid as it is.
GridKept ==
    /\ (pc = "Idle" /\ pc' = "Running")
          => time_vector' = TimeVector(entries) /\ trials' = 0 /\ payoffs' = << >>
    /\ pc # "Idle" => time_vector' = time_vector

\* C23: the grid is built once per run, before the first trial, and no
\* trial and no payoff evaluation changes it: every trial of the run sees
\* the grid the first trial saw.
C23_GridBuiltOnce == [][GridKept]_vars

C23_Witness ==
    /\ pc = "Running"
    /\ trials = MaxSims
    /\ Len(time_vector) >= 2
    /\ time_vector = TimeVector(entries)
    /\ Len(payoffs) = MaxSims

\* The sequences of the latest trial, one per asset, and the value each
\* starts from: the initial price, held as its logarithm by Himalaya.
PathsOfTrial == IF entries.kind = "Himalaya" THEN last_path ELSE << last_path >>
StartsOfTrial ==
    IF entries.kind = "Himalaya"
    THEN [j \in 1..Len(entries.assets) |-> FLog(entries.assets[j])]
    ELSE << entries.S_0 >>

\* C24: every path of a trial has one value per point of the grid, the
\* first being the initial price, whatever grid the builder returned for a
\* positive maturity (or number of assets), the empty one included; a
\* Himalaya trial has one such sequence per asset.
C24_OneValuePerGridPoint ==
    (/\ IsValid(entries) /\ trials > 0
     /\ IF entries.kind = "Himalaya" THEN entries.num_assets > 0 ELSE entries.maturity > 0)
        => /\ Len(PathsOfTrial) = Len(StartsOfTrial)
           /\ \A j \in 1..Len(PathsOfTrial) :
                 /\ Len(PathsOfTrial[j]) = Len(time_vector)
                 /\ PathsOfTrial[j] # << >> => PathsOfTrial[j][1] = StartsOfTrial[j]

====
